---- MODULE Spec2Model ----
(***************************************************************************)
(* A model of xsh (src/main.c, src/shell.c, src/shell.h): the read /       *)
(* execute / reap loop of main(), execute_command with its alias           *)
(* expansion, the built-in handlers, find_command, the foreground wait of  *)
(* execute_external, and the alias and job tables of shell.c.              *)
(*                                                                         *)
(* C strings are sequences of symbols.  A symbol is a TLA+ string standing *)
(* for one character (" ", "=", "/", ":", "~") or for an indivisible run   *)
(* of ordinary characters ("alias", "ls", "-la"); no symbol is a           *)
(* concatenation of others, so strcmp is sequence equality and strchr is   *)
(* a search for a symbol.  The empty string is <<>>; NULL is a separate    *)
(* value.  A char** argument vector is the sequence of its strings up to   *)
(* (and without) the terminating NULL, so args[0] of the C code is args[1] *)
(* here.  Allocation failure (malloc / strdup returning NULL) and the      *)
(* truncation of buffers of MAX_PATH_LENGTH bytes are not modelled.        *)
(***************************************************************************)
EXTENDS Integers, Sequences, FiniteSets, TLC

\* ---------------------------------------------------------------- bounds
\* number of lines readline() hands to main() before it reports end of input
MaxLines == 3
\* number of calls made by the API-level harness (specification SpecApi)
MaxCalls == 2

\* ------------------------------------------------------ program constants
MAX_ARGS == 512
MAX_ALIASES == 100
EXIT_SUCCESS == 0
EXIT_FAILURE == 1
EXIT_NOT_FOUND == 127

\* the null pointer: distinct from every string (its symbol is in no input)
NULL == <<"(null)">>
\* the null char**: no argument vector (the empty vector is <<>>)
NULLV == <<NULL>>

\* ------------------------------------------------------------ C library
\* isspace() in the C locale: space, \t, \n, \v, \f, \r (the symbol "<VT>"
\* stands for the vertical tab, which has no escape in a TLA+ string)
isspace(c) == c \in {" ", "\t", "\n", "<VT>", "\f", "\r"}

\* the delimiter set parse_command hands to strtok
ParseDelims == {" ", "\t", "\n", "\r"}

\* all tokens strtok(s, delims) / strtok(NULL, delims) returns, in order:
\* maximal runs of non-delimiter symbols, empty runs skipped
RECURSIVE strtok(_, _, _, _)
strtok(s, i, cur, delims) ==
    IF i > Len(s)
    THEN IF cur = <<>> THEN <<>> ELSE <<cur>>
    ELSE IF s[i] \in delims
         THEN IF cur = <<>>
              THEN strtok(s, i + 1, <<>>, delims)
              ELSE <<cur>> \o strtok(s, i + 1, <<>>, delims)
         ELSE strtok(s, i + 1, Append(cur, s[i]), delims)

\* strchr(s, c) as a 1-based index, 0 when c does not occur
strchr(s, c) ==
    IF \E i \in 1..Len(s) : s[i] = c
    THEN CHOOSE i \in 1..Len(s) : s[i] = c /\ \A j \in 1..(i - 1) : s[j] # c
    ELSE 0

\* ------------------------------------------------------------- shell.c
\* trim_whitespace: skip leading isspace, then cut trailing isspace
RECURSIVE SkipLeading(_)
SkipLeading(s) ==
    IF s # <<>> /\ isspace(s[1]) THEN SkipLeading(Tail(s)) ELSE s

RECURSIVE CutTrailing(_)
CutTrailing(s) ==
    IF Len(s) > 1 /\ isspace(s[Len(s)])
    THEN CutTrailing(SubSeq(s, 1, Len(s) - 1))
    ELSE s

trim_whitespace(str) ==
    IF str = NULL THEN NULL
    ELSE LET t == SkipLeading(str) IN
         IF t = <<>> THEN t ELSE CutTrailing(t)

\* parse_command: at most MAX_ARGS - 1 whitespace-separated tokens
parse_command(command) ==
    IF command = NULL THEN NULLV
    ELSE LET toks == strtok(command, 1, <<>>, ParseDelims) IN
         IF Len(toks) > MAX_ARGS - 1 THEN SubSeq(toks, 1, MAX_ARGS - 1) ELSE toks

\* the search for an entry that never finds one (a faulty variant)
AliasIndex_none(aliases, name) == 0

\* index of the first entry named name, 0 when there is none
AliasIndex(aliases, name) ==
    IF \E i \in 1..Len(aliases) : aliases[i].name = name
    THEN CHOOSE i \in 1..Len(aliases) :
            /\ aliases[i].name = name
            /\ \A j \in 1..(i - 1) : aliases[j].name # name
    ELSE 0

\* add_alias with the capacity test removed (a faulty variant)
add_alias_nocap(aliases, name, value) ==
    IF name = NULL \/ value = NULL THEN aliases
    ELSE LET i == AliasIndex(aliases, name) IN
         IF i # 0
         THEN [aliases EXCEPT ![i].value = value]
         ELSE Append(aliases, [name |-> name, value |-> value])

\* add_alias: the table after the call (config.aliases[0 .. alias_count-1])
add_alias(aliases, name, value) ==
    IF name = NULL \/ value = NULL THEN aliases
    ELSE IF Len(aliases) >= MAX_ALIASES THEN aliases
    ELSE LET i == AliasIndex(aliases, name) IN
         IF i # 0
         THEN [aliases EXCEPT ![i].value = value]
         ELSE Append(aliases, [name |-> name, value |-> value])

\* get_alias: the value of the first entry named name, or NULL
get_alias(aliases, name) ==
    IF name = NULL THEN NULL
    ELSE LET i == AliasIndex(aliases, name) IN
         IF i = 0 THEN NULL ELSE aliases[i].value

\* remove_alias: drop the first entry named name, shifting the rest down
remove_alias(aliases, name) ==
    IF name = NULL THEN aliases
    ELSE LET i == AliasIndex(aliases, name) IN
         IF i = 0 THEN aliases
         ELSE SubSeq(aliases, 1, i - 1) \o SubSeq(aliases, i + 1, Len(aliases))

\* -------------------------------------------------- the process environment
\* An environment: the PATH and HOME variables (NULL when unset), the paths
\* for which access(path, X_OK) succeeds and the directories chdir accepts.
EnvFull ==
    [PATH  |-> <<"/", "opt", ":", "/", "bin">>,
     HOME  |-> <<"/", "home", "/", "user">>,
     files |-> { <<"/", "opt", "/", "ls">>, <<"/", "bin", "/", "ls">>,
                 <<"/", "bin", "/", "pwd">>,
                 <<"/", "usr", "/", "bin", "/", "unalias">>,
                 <<"/", "home", "/", "user", "/", ".local", "/", "bin", "/", "tool">> },
     dirs  |-> { <<"/", "home">>, <<"/", "home", "/", "user">>, <<"/", "tmp">> }]

EnvBare ==
    [PATH  |-> NULL,
     HOME  |-> NULL,
     files |-> { <<"/", "usr", "/", "bin", "/", "ls">>,
                 <<"/", "tmp", "/", "tool">> },
     dirs  |-> { <<"/", "tmp">> }]

Environments == {EnvFull, EnvBare}

\* the working directory the shell is started in
StartDir == <<"/", "home">>

\* a relative path is resolved by the OS against the working directory
AbsPath(path, cwd) ==
    IF path # <<>> /\ path[1] = "/" THEN path ELSE cwd \o <<"/">> \o path

\* access(path, X_OK) == 0
access(path, e, cwd) == AbsPath(path, cwd) \in e.files

\* chdir(path) == 0
chdir_ok(path, e, cwd) == path # <<>> /\ AbsPath(path, cwd) \in e.dirs

\* ------------------------------------------------------------- main.c
standard_paths ==
    << <<"/", "bin">>,
       <<"/", "sbin">>,
       <<"/", "usr", "/", "bin">>,
       <<"/", "usr", "/", "sbin">>,
       <<"/", "usr", "/", "local", "/", "bin">>,
       <<"~", "/", ".local", "/", "bin">> >>

\* the default find_command uses when PATH is unset: "/bin:/usr/bin"
DefaultPath == <<"/", "bin", ":", "/", "usr", "/", "bin">>

\* one standard path as find_command appends it: a leading ~ becomes HOME
\* when HOME is set
ExpandStandard(sp, home) ==
    IF sp[1] = "~" /\ home # NULL THEN home \o Tail(sp) ELSE sp

\* new_path: the PATH value followed by ":" and each standard path
RECURSIVE AppendStandard(_, _, _)
AppendStandard(path, i, home) ==
    IF i > Len(standard_paths) THEN path
    ELSE AppendStandard(path \o <<":">> \o ExpandStandard(standard_paths[i], home),
                        i + 1, home)

SearchPath(e) ==
    AppendStandard(IF e.PATH = NULL THEN DefaultPath ELSE e.PATH, 1, e.HOME)

\* strlen in bytes: a symbol counts the characters it stands for
RECURSIVE strlen(_)
strlen(s) == IF s = <<>> THEN 0 ELSE Len(s[1]) + strlen(Tail(s))

\* total_len: strlen(path) plus strlen(standard_paths[i]) + 1 for every i;
\* new_path is malloc(total_len + 1)
RECURSIVE StandardLen(_)
StandardLen(i) ==
    IF i > Len(standard_paths) THEN 0
    ELSE strlen(standard_paths[i]) + 1 + StandardLen(i + 1)

total_len(e) ==
    strlen(IF e.PATH = NULL THEN DefaultPath ELSE e.PATH) + StandardLen(1)

\* find_command writes strlen(new_path) + 1 bytes into the total_len + 1
\* bytes of new_path: more than fit when HOME, which replaces the one
\* character ~, is longer than one character.  Only a bare name gets there.
find_command_overruns(cmd, e) ==
    /\ cmd # NULL
    /\ strchr(cmd, "/") = 0
    /\ strlen(SearchPath(e)) + 1 > total_len(e) + 1

\* the while (dir) loop: the first directory whose dir/cmd is executable
RECURSIVE FirstExecutable(_, _, _, _, _)
FirstExecutable(dirs, i, cmd, e, cwd) ==
    IF i > Len(dirs) THEN NULL
    ELSE LET full_path == dirs[i] \o <<"/">> \o cmd IN
         IF access(full_path, e, cwd) THEN full_path
         ELSE FirstExecutable(dirs, i + 1, cmd, e, cwd)

\* find_command: the path to execute, or NULL
find_command(cmd, e, cwd) ==
    IF cmd = NULL THEN NULL
    ELSE IF strchr(cmd, "/") # 0
    THEN IF access(cmd, e, cwd) THEN cmd ELSE NULL
    ELSE FirstExecutable(strtok(SearchPath(e), 1, <<>>, {":"}), 1, cmd, e, cwd)

\* execute_builtin with the pwd entry missing (a faulty variant)
execute_builtin_nopwd(args) ==
    IF args = <<>> THEN "null"
    ELSE IF args[1] = <<"cd">> THEN "cd"
    ELSE IF args[1] = <<"exit">> THEN "exit"
    ELSE IF args[1] = <<"clear">> THEN "clear"
    ELSE IF args[1] = <<"help">> THEN "help"
    ELSE IF args[1] = <<"history">> THEN "history"
    ELSE IF args[1] = <<"alias">> THEN "alias"
    ELSE "not_found"

\* execute_builtin: the handler the strcmp chain selects; "null" is the
\* early return of EXIT_SUCCESS for an empty vector, "not_found" the final
\* return of EXIT_NOT_FOUND
execute_builtin(args) ==
    IF args = <<>> THEN "null"
    ELSE IF args[1] = <<"cd">> THEN "cd"
    ELSE IF args[1] = <<"pwd">> THEN "pwd"
    ELSE IF args[1] = <<"exit">> THEN "exit"
    ELSE IF args[1] = <<"clear">> THEN "clear"
    ELSE IF args[1] = <<"help">> THEN "help"
    ELSE IF args[1] = <<"history">> THEN "history"
    ELSE IF args[1] = <<"alias">> THEN "alias"
    ELSE "not_found"

\* cmd_alias: the table after the call and the status returned
cmd_alias(aliases, args) ==
    IF Len(args) < 2
    THEN [aliases |-> aliases, status |-> EXIT_SUCCESS]
    ELSE LET equals == strchr(args[2], "=") IN
         IF equals = 0
         THEN [aliases |-> aliases, status |-> EXIT_FAILURE]
         ELSE [aliases |-> add_alias(aliases,
                                     SubSeq(args[2], 1, equals - 1),
                                     SubSeq(args[2], equals + 1, Len(args[2]))),
               status  |-> EXIT_SUCCESS]

\* the alias step of execute_command with the original words appended to
\* the replacement (a faulty variant)
expand_alias_append(aliases, args) ==
    IF args = <<>> THEN [args |-> args, lookups |-> <<>>]
    ELSE LET alias_value == get_alias(aliases, args[1]) IN
         IF alias_value # NULL
         THEN [args |-> parse_command(alias_value) \o Tail(args),
               lookups |-> <<args[1]>>]
         ELSE [args |-> args, lookups |-> <<args[1]>>]

\* the alias step of execute_command repeated while the first word is an
\* alias, at most depth times (a faulty variant)
RECURSIVE expand_alias_chain(_, _, _)
expand_alias_chain(aliases, args, depth) ==
    IF args = <<>> THEN [args |-> args, lookups |-> <<>>]
    ELSE LET alias_value == get_alias(aliases, args[1]) IN
         IF alias_value # NULL /\ depth > 0
         THEN LET r == expand_alias_chain(aliases, parse_command(alias_value),
                                          depth - 1)
              IN [args |-> r.args, lookups |-> <<args[1]>> \o r.lookups]
         ELSE [args |-> args, lookups |-> <<args[1]>>]

expand_alias_chained(aliases, args) == expand_alias_chain(aliases, args, 3)

\* the alias step of execute_command skipped for a built-in name (a faulty
\* variant)
expand_alias_builtins_first(aliases, args) ==
    IF args = <<>> THEN [args |-> args, lookups |-> <<>>]
    ELSE IF execute_builtin(args) # "not_found"
    THEN [args |-> args, lookups |-> <<>>]
    ELSE LET alias_value == get_alias(aliases, args[1]) IN
         IF alias_value # NULL
         THEN [args |-> parse_command(alias_value), lookups |-> <<args[1]>>]
         ELSE [args |-> args, lookups |-> <<args[1]>>]

\* the alias step of execute_command ("Check for alias"): the words that go
\* on to dispatch and the names handed to get_alias
expand_alias(aliases, args) ==
    IF args = <<>> THEN [args |-> args, lookups |-> <<>>]
    ELSE LET alias_value == get_alias(aliases, args[1]) IN
         IF alias_value # NULL
         THEN [args |-> parse_command(alias_value), lookups |-> <<args[1]>>]
         ELSE [args |-> args, lookups |-> <<args[1]>>]

\* --------------------------------------------------- wait status (wait.h)
\* the status word waitpid stores: exit code in bits 8-15, terminating
\* signal in bits 0-6, 0x7f in the low byte for a stopped child
StatusExited(code) == (code % 256) * 256
StatusSignaled(sig) == sig
StatusStopped(sig) == sig * 256 + 127

WIFEXITED(status) == status % 128 = 0
WIFSIGNALED(status) == (status % 128) \in 1..126
WEXITSTATUS(status) == (status \div 256) % 256

\* exit codes and signals a child is observed with
ExitCodes == {0, 3, EXIT_NOT_FOUND}
TermSignals == {9}
StopSignals == {19}

\* the value execute_external returns once its wait loop has ended
external_status(status) ==
    IF WIFEXITED(status) THEN WEXITSTATUS(status) ELSE EXIT_FAILURE

\* a do/while that stops at the first report (a faulty variant)
wait_done_any(status) == TRUE

\* the condition that ends the do/while around waitpid
wait_done(status) == WIFEXITED(status) \/ WIFSIGNALED(status)

\* ------------------------------------------------------ job table (shell.c)
\* process identifiers the OS hands out
MaxProcs == 2
Pids == 1..MaxProcs

NoProc == [st |-> "none", ws |-> 0, reported |-> FALSE]

\* add_job: the table after the call
add_job(jobs, pid, cmd) ==
    IF cmd = NULL THEN jobs
    ELSE IF Len(jobs) >= MAX_ARGS THEN jobs
    ELSE Append(jobs, [pid |-> pid, command |-> cmd, running |-> 1, status |-> 0])

\* update_jobs from entry i on: waitpid(pid, &status, WNOHANG) returns the
\* pid of a terminated child (which the OS then forgets), 0 for a child that
\* is alive and -1 when there is no such child
RECURSIVE update_jobs_from(_, _, _)
update_jobs_from(jobs, procs, i) ==
    IF i > Len(jobs) THEN [jobs |-> jobs, procs |-> procs, waited |-> <<>>]
    ELSE IF jobs[i].running = 0 THEN update_jobs_from(jobs, procs, i + 1)
    ELSE LET pid == jobs[i].pid
             p   == procs[pid]
         IN IF p.st = "zombie"
            THEN LET r == update_jobs_from(
                              [jobs EXCEPT ![i].running = 0,
                                           ![i].status = WEXITSTATUS(p.ws)],
                              [procs EXCEPT ![pid] = NoProc], i + 1)
                 IN [r EXCEPT !.waited = <<pid>> \o @]
            ELSE LET r == update_jobs_from(jobs, procs, i + 1)
                 IN [r EXCEPT !.waited = <<pid>> \o @]

\* a sweep that drops the jobs it finds finished (a faulty variant)
update_jobs_removing(jobs, procs) ==
    LET r == update_jobs_from(jobs, procs, 1) IN
    [r EXCEPT !.jobs = SelectSeq(r.jobs, LAMBDA j : j.running = 1)]

update_jobs(jobs, procs) == update_jobs_from(jobs, procs, 1)

\* ------------------------------------------------------------------ inputs
\* lines readline() returns to main()
InputLines ==
    { <<>>,
      <<" ", "\t">>,
      <<"alias", " ", "x", "=">>,
      <<"alias", " ", "x", "=", "exit">>,
      <<"x">>,
      <<"alias", " ", "ll", "=", "ls", " ", "-la">>,
      <<"ll", " ", "extra">>,
      <<"alias", " ", "ll", "=", "ll">>,
      <<"alias", " ", "exit", "=", "pwd">>,
      <<"alias", " ", "ll">>,
      <<"alias">>,
      <<"unalias", " ", "x">>,
      <<"exit">>,
      <<" ", "pwd", " ">>,
      <<"cd", " ", "/", "tmp">>,
      <<"cd">>,
      <<"cd", " ", "/", "nodir">>,
      <<"nosuch", " ", "-v">>,
      <<"ls", " ", "-la", " ", ">", " ", "out.txt">>,
      <<"ls", " ", ">">>,
      <<"ls", " ", "&">>,
      <<"help">>,
      <<"clear">>,
      <<"history">> }

\* alias tables the API-level harness starts from; FullTable holds
\* MAX_ALIASES entries
QuirkTable ==
    << [name |-> <<"ll">>, value |-> <<"ls", " ", "-la">>],
       [name |-> <<"x">>,  value |-> <<>>],
       [name |-> <<"a">>,  value |-> <<"a", " ", "-v">>],
       [name |-> <<"b">>,  value |-> <<"c">>],
       [name |-> <<"c">>,  value |-> <<"b", " ", "-w">>] >>

FullTable ==
    [i \in 1..MAX_ALIASES |->
        IF i <= Len(QuirkTable) THEN QuirkTable[i]
        ELSE [name |-> <<"n", ToString(i)>>, value |-> <<"ls">>]]

InitTables == {<<>>, QuirkTable, FullTable}

\* job tables the harness starts from: none, one child forked and recorded
\* with add_job that has since exited with code 3, or one job recorded for a
\* pid that is no child of the shell (waitpid on it returns -1)
InitJobTables ==
    { [jobs |-> <<>>, procs |-> [p \in Pids |-> NoProc]],
      [jobs |-> add_job(<<>>, 1, <<"sleep", " ", "5">>),
       procs |-> [p \in Pids |->
                    IF p = 1
                    THEN [st |-> "zombie", ws |-> StatusExited(3), reported |-> FALSE]
                    ELSE NoProc]],
      [jobs |-> add_job(<<>>, MaxProcs, <<"gone">>),
       procs |-> [p \in Pids |-> NoProc]] }

\* arguments of the harness's calls
ApiNames == {<<"ll">>, <<"x">>, <<"n", ToString(MAX_ALIASES)>>, <<"new">>, NULL}
ApiValues == {<<"ls", " ", "-la">>, <<>>, <<"new">>, NULL}
ApiLines ==
    { <<"ll">>, <<"ll", " ", "extra">>, <<"a", " ", "z">>, <<"b">>, <<"x">>,
      <<"new", " ", "z">>, <<"pwd">>, <<"ls">>,
      <<"alias", " ", "new", "=", "pwd">>, <<>>, NULL }

FindNames ==
    { <<"ls">>, <<"pwd">>, <<"tool">>, <<"unalias">>, <<"nosuch">>,
      <<"/", "bin", "/", "ls">>, <<"/", "tmp", "/", "nosuch">>, NULL }

\* ------------------------------------------------------------------- state
VARIABLES
    pc,           \* position of the control thread
    caller,       \* "main" (main() drives) or "api" (the harness drives)
    env,          \* the process environment, fixed for a run
    command,      \* main(): the line readline returned (NULL at end of input)
    running,      \* the continue flag
    current_dir,  \* the cached working directory
    os_cwd,       \* the working directory of the process
    aliases,      \* config.aliases[0 .. alias_count-1]
    jobs,         \* config.jobs[0 .. job_count-1]
    procs,        \* the children of the shell process, by pid
    fg,           \* pid execute_external waits for, 0 when none
    history,      \* readline's history list
    status,       \* value returned by the last execute_command
    obs,          \* what the last execute_command did
    waited,       \* pids the last update_jobs called waitpid on
    lastOp,       \* the harness's last call
    nread, nsweeps, ncleanup, sweepCycle, ncalls

vars == <<pc, caller, env, command, running, current_dir, os_cwd, aliases,
          jobs, procs, fg, history, status, obs, waited, lastOp,
          nread, nsweeps, ncleanup, sweepCycle, ncalls>>

shellState == <<running, current_dir, os_cwd, aliases, jobs>>
counters == <<nread, nsweeps, ncleanup, sweepCycle, ncalls>>

ObsNone == [line |-> NULL, words |-> NULLV, dispatched |-> NULLV,
            handler |-> "none", lookups |-> <<>>, resolved |-> <<>>,
            forked |-> FALSE]
OpNone == [op |-> "none", name |-> NULL, value |-> NULL, result |-> NULL]

\* initialize_shell, then the first evaluation of the loop condition
InitCommon ==
    /\ env \in Environments
    /\ command = NULL
    /\ running = 1
    /\ current_dir = StartDir
    /\ os_cwd = StartDir
    /\ fg = 0
    /\ history = <<>>
    /\ status = EXIT_SUCCESS
    /\ obs = ObsNone
    /\ waited = <<>>
    /\ lastOp = OpNone
    /\ nread = 0 /\ nsweeps = 0 /\ ncleanup = 0 /\ sweepCycle = 0 /\ ncalls = 0

Init ==
    /\ InitCommon
    /\ caller = "main"
    /\ pc = "read"
    /\ aliases = <<>>
    /\ jobs = <<>>
    /\ procs = [p \in Pids |-> NoProc]

InitApi ==
    /\ InitCommon
    /\ caller = "api"
    /\ pc = "idle"
    /\ aliases \in InitTables
    /\ \E t \in InitJobTables : jobs = t.jobs /\ procs = t.procs

\* where control goes when execute_command returns
AfterExecute == IF caller = "main" THEN "reap" ELSE "idle"

\* add_to_history that never appends (a faulty variant)
add_to_history_dropped(h, cmd) == h

\* add_to_history: append a non-empty line to readline's list
add_to_history(h, cmd) ==
    IF cmd # NULL /\ cmd # <<>> THEN Append(h, cmd) ELSE h

\* the pid fork() returns: the lowest one not in use
FreePids == {p \in Pids : procs[p].st = "none"}
NextPid == CHOOSE p \in FreePids : \A q \in FreePids : p <= q

\* ------------------------------------------------------- built-in handlers
\* cmd_cd: chdir to args[1] or to HOME, then refresh current_dir with getcwd.
\* getcwd can fail after a successful chdir; POSIX leaves the buffer
\* undefined then, so current_dir keeps its contents or holds anything else.
Garbage == <<"?">>

cmd_cd(args) ==
    LET target == IF Len(args) < 2 THEN env.HOME ELSE args[2] IN
    IF target = NULL \/ ~chdir_ok(target, env, os_cwd)
    THEN /\ status' = EXIT_FAILURE
         /\ UNCHANGED <<os_cwd, current_dir>>
    ELSE /\ os_cwd' = AbsPath(target, os_cwd)
         /\ \/ /\ current_dir' = os_cwd'
               /\ status' = EXIT_SUCCESS
            \/ /\ current_dir' \in {current_dir, Garbage}
               /\ status' = EXIT_FAILURE

\* execute_external: resolve args[0], fork, and go on to wait for the child.
\* The heap overrun in find_command is undefined behaviour: the call either
\* goes on as written or the process is aborted by the allocator.
execute_external(args, o) ==
    LET cmd_path == find_command(args[1], env, os_cwd) IN
    \/ \* the write past new_path corrupts the heap and malloc aborts
       /\ find_command_overruns(args[1], env)
       /\ pc' = "aborted"
       /\ obs' = [o EXCEPT !.resolved = <<args[1]>>]
       /\ UNCHANGED <<status, procs, fg>>
    \/ /\ cmd_path = NULL
       /\ status' = EXIT_NOT_FOUND
       /\ obs' = [o EXCEPT !.resolved = <<args[1]>>]
       /\ pc' = AfterExecute
       /\ UNCHANGED <<procs, fg>>
    \/ /\ cmd_path # NULL
       /\ \/ \* fork() < 0
            /\ status' = EXIT_FAILURE
            /\ obs' = [o EXCEPT !.resolved = <<args[1]>>]
            /\ pc' = AfterExecute
            /\ UNCHANGED <<procs, fg>>
          \/ \* fork() > 0: the child runs execv(cmd_path, args)
            /\ FreePids # {}
            /\ procs' = [procs EXCEPT ![NextPid] =
                            [st |-> "running", ws |-> 0, reported |-> FALSE]]
            /\ fg' = NextPid
            /\ obs' = [o EXCEPT !.resolved = <<args[1]>>, !.forked = TRUE]
            /\ pc' = "wait"
            /\ UNCHANGED status

\* execute_command(cmd): history, parse, alias step, built-in or external
execute_command(cmd) ==
    IF cmd = NULL \/ cmd = <<>>
    THEN /\ status' = EXIT_SUCCESS
         /\ obs' = [ObsNone EXCEPT !.line = cmd]
         /\ pc' = AfterExecute
         /\ UNCHANGED <<shellState, procs, fg, history>>
    ELSE LET words == parse_command(cmd)
             ex    == expand_alias(aliases, words)
             args  == ex.args
             h     == execute_builtin(args)
             o     == [line |-> cmd, words |-> words, dispatched |-> args,
                       handler |-> h, lookups |-> ex.lookups,
                       resolved |-> <<>>, forked |-> FALSE]
         IN
         /\ history' = add_to_history(history, cmd)
         /\ UNCHANGED jobs
         /\ IF h = "not_found"
            THEN /\ execute_external(args, o)
                 /\ UNCHANGED <<running, current_dir, os_cwd, aliases>>
            ELSE /\ obs' = o
                 /\ pc' = AfterExecute
                 /\ UNCHANGED <<procs, fg>>
                 /\ CASE h = "cd" ->
                           /\ cmd_cd(args)
                           /\ UNCHANGED <<running, aliases>>
                      [] h = "exit" ->
                           /\ running' = 0
                           /\ status' = EXIT_SUCCESS
                           /\ UNCHANGED <<current_dir, os_cwd, aliases>>
                      [] h = "alias" ->
                           /\ aliases' = cmd_alias(aliases, args).aliases
                           /\ status' = cmd_alias(aliases, args).status
                           /\ UNCHANGED <<running, current_dir, os_cwd>>
                      [] OTHER ->
                           \* empty vector, pwd, clear, help, history: output only
                           /\ status' = EXIT_SUCCESS
                           /\ UNCHANGED <<running, current_dir, os_cwd, aliases>>

\* ------------------------------------------------------------ the children
\* a child of the shell changes state: it exits, is killed, stops or continues
ChildEvent ==
    \E pid \in Pids :
        /\ procs[pid].st \in {"running", "stopped"}
        /\ \/ \E c \in ExitCodes :
                 /\ procs[pid].st = "running"
                 /\ procs' = [procs EXCEPT ![pid] =
                      [st |-> "zombie", ws |-> StatusExited(c), reported |-> FALSE]]
           \/ \E sig \in TermSignals :
                 procs' = [procs EXCEPT ![pid] =
                      [st |-> "zombie", ws |-> StatusSignaled(sig), reported |-> FALSE]]
           \/ \E sig \in StopSignals :
                 /\ procs[pid].st = "running"
                 /\ procs' = [procs EXCEPT ![pid] =
                      [st |-> "stopped", ws |-> StatusStopped(sig), reported |-> FALSE]]
           \/ /\ procs[pid].st = "stopped"
              /\ procs' = [procs EXCEPT ![pid] =
                      [st |-> "running", ws |-> 0, reported |-> FALSE]]
        /\ UNCHANGED <<pc, caller, env, command, shellState, fg, history,
                       status, obs, waited, lastOp, counters>>

\* execute_external's do { waitpid(pid, &status, WUNTRACED) } while (...):
\* one return of waitpid, for a terminated child or a newly stopped one
WaitForeground ==
    /\ pc = "wait"
    /\ LET p == procs[fg] IN
       /\ \/ p.st = "zombie"
          \/ p.st = "stopped" /\ ~p.reported
       /\ procs' = IF p.st = "zombie"
                   THEN [procs EXCEPT ![fg] = NoProc]
                   ELSE [procs EXCEPT ![fg].reported = TRUE]
       /\ IF wait_done(p.ws)
          THEN /\ status' = external_status(p.ws)
               /\ fg' = 0
               /\ pc' = AfterExecute
          ELSE UNCHANGED <<status, fg, pc>>
    /\ UNCHANGED <<caller, env, command, shellState, history, obs, waited,
                   lastOp, counters>>

\* ------------------------------------------------------------------ main()
\* the loop left without looking at the flag (a faulty variant)
LoopExit_unconditional ==
    /\ pc = "read"
    /\ pc' = "cleanup"
    /\ UNCHANGED <<caller, env, command, shellState, procs, fg, history,
                   status, obs, waited, lastOp, counters>>

\* while (running && ...): the flag is tested before readline is called
LoopExit ==
    /\ pc = "read"
    /\ running = 0
    /\ pc' = "cleanup"
    /\ UNCHANGED <<caller, env, command, shellState, procs, fg, history,
                   status, obs, waited, lastOp, counters>>

\* readline() called without testing the flag first (a faulty variant)
Readline_ignoring_flag ==
    /\ pc = "read"
    /\ nread < MaxLines
    /\ \E line \in InputLines : command' = line
    /\ nread' = nread + 1
    /\ pc' = "body"
    /\ UNCHANGED <<caller, env, shellState, procs, fg, history, status, obs,
                   waited, lastOp, nsweeps, ncleanup, sweepCycle, ncalls>>

\* readline() returns a line
Readline ==
    /\ pc = "read"
    /\ running # 0
    /\ nread < MaxLines
    /\ \E line \in InputLines : command' = line
    /\ nread' = nread + 1
    /\ pc' = "body"
    /\ UNCHANGED <<caller, env, shellState, procs, fg, history, status, obs,
                   waited, lastOp, nsweeps, ncleanup, sweepCycle, ncalls>>

\* readline() returns NULL (end of input)
ReadlineEOF ==
    /\ pc = "read"
    /\ running # 0
    /\ command' = NULL
    /\ pc' = "cleanup"
    /\ UNCHANGED <<caller, env, shellState, procs, fg, history, status, obs,
                   waited, lastOp, counters>>

\* the loop body up to the return of execute_command (or to the wait for a
\* foreground child inside it)
Body ==
    /\ pc = "body"
    /\ LET trimmed == trim_whitespace(command) IN
       IF command = <<>> \/ trimmed = <<>>
       THEN /\ pc' = "read"
            /\ UNCHANGED <<shellState, procs, fg, history, status, obs>>
       ELSE execute_command(trimmed)
    /\ UNCHANGED <<caller, env, command, waited, lastOp, counters>>

\* update_jobs(), then free(command) and back to the loop condition
UpdateJobs ==
    /\ pc = "reap"
    /\ LET r == update_jobs(jobs, procs) IN
       /\ jobs' = r.jobs
       /\ procs' = r.procs
       /\ waited' = r.waited
    /\ nsweeps' = nsweeps + 1
    /\ sweepCycle' = nread
    /\ pc' = "read"
    /\ UNCHANGED <<caller, env, command, running, current_dir, os_cwd,
                   aliases, fg, history, status, obs, lastOp, nread,
                   ncleanup, ncalls>>

\* cleanup_shell(), then return from main
Cleanup ==
    /\ pc = "cleanup"
    /\ ncleanup' = ncleanup + 1
    /\ pc' = "done"
    /\ UNCHANGED <<caller, env, command, shellState, procs, fg, history,
                   status, obs, waited, lastOp, nread, nsweeps, sweepCycle,
                   ncalls>>

Next ==
    \/ Readline
    \/ ReadlineEOF
    \/ LoopExit
    \/ Body
    \/ ChildEvent
    \/ WaitForeground
    \/ UpdateJobs
    \/ Cleanup

Spec == Init /\ [][Next]_vars

\* ------------------------------------------- the functions called directly
\* SpecApi: a harness calls the functions shell.h exports, one call at a
\* time, on a table that earlier calls have filled.
ApiIdle == pc = "idle" /\ ncalls < MaxCalls

ApiAddAlias ==
    /\ ApiIdle
    /\ \E name \in ApiNames, value \in ApiValues :
          /\ aliases' = add_alias(aliases, name, value)
          /\ lastOp' = [op |-> "add_alias", name |-> name, value |-> value,
                        result |-> NULL]
    /\ ncalls' = ncalls + 1
    /\ UNCHANGED <<pc, caller, env, command, running, current_dir, os_cwd,
                   jobs, procs, fg, history, status, obs, waited,
                   nread, nsweeps, ncleanup, sweepCycle>>

ApiGetAlias ==
    /\ ApiIdle
    /\ \E name \in ApiNames :
          lastOp' = [op |-> "get_alias", name |-> name, value |-> NULL,
                     result |-> get_alias(aliases, name)]
    /\ ncalls' = ncalls + 1
    /\ UNCHANGED <<pc, caller, env, command, shellState, procs, fg, history,
                   status, obs, waited, nread, nsweeps, ncleanup, sweepCycle>>

ApiRemoveAlias ==
    /\ ApiIdle
    /\ \E name \in ApiNames :
          /\ aliases' = remove_alias(aliases, name)
          /\ lastOp' = [op |-> "remove_alias", name |-> name, value |-> NULL,
                        result |-> NULL]
    /\ ncalls' = ncalls + 1
    /\ UNCHANGED <<pc, caller, env, command, running, current_dir, os_cwd,
                   jobs, procs, fg, history, status, obs, waited,
                   nread, nsweeps, ncleanup, sweepCycle>>

ApiExecuteCommand ==
    /\ ApiIdle
    /\ \E line \in ApiLines :
          /\ execute_command(line)
          /\ lastOp' = [op |-> "execute_command", name |-> line,
                        value |-> NULL, result |-> NULL]
    /\ ncalls' = ncalls + 1
    /\ UNCHANGED <<caller, env, command, waited,
                   nread, nsweeps, ncleanup, sweepCycle>>

\* the harness forks a child and records it with add_job
ApiAddJob ==
    /\ ApiIdle
    /\ FreePids # {}
    /\ \E cmd \in {<<"ls">>, NULL} :
          /\ jobs' = add_job(jobs, NextPid, cmd)
          /\ lastOp' = [op |-> "add_job", name |-> cmd, value |-> NULL,
                        result |-> NULL]
    /\ procs' = [procs EXCEPT ![NextPid] =
                    [st |-> "running", ws |-> 0, reported |-> FALSE]]
    /\ ncalls' = ncalls + 1
    /\ UNCHANGED <<pc, caller, env, command, running, current_dir, os_cwd,
                   aliases, fg, history, status, obs, waited,
                   nread, nsweeps, ncleanup, sweepCycle>>

\* a sweep that waits on every entry, Exited ones too (a faulty variant)
ApiUpdateJobs_all ==
    /\ ApiIdle
    /\ LET r == update_jobs([i \in DOMAIN jobs |-> [jobs[i] EXCEPT !.running = 1]],
                            procs) IN
       /\ jobs' = r.jobs
       /\ procs' = r.procs
       /\ waited' = r.waited
    /\ lastOp' = [op |-> "update_jobs", name |-> NULL, value |-> NULL,
                  result |-> NULL]
    /\ nsweeps' = nsweeps + 1
    /\ ncalls' = ncalls + 1
    /\ UNCHANGED <<pc, caller, env, command, running, current_dir, os_cwd,
                   aliases, fg, history, status, obs,
                   nread, ncleanup, sweepCycle>>

ApiUpdateJobs ==
    /\ ApiIdle
    /\ LET r == update_jobs(jobs, procs) IN
       /\ jobs' = r.jobs
       /\ procs' = r.procs
       /\ waited' = r.waited
    /\ lastOp' = [op |-> "update_jobs", name |-> NULL, value |-> NULL,
                  result |-> NULL]
    /\ nsweeps' = nsweeps + 1
    /\ ncalls' = ncalls + 1
    /\ UNCHANGED <<pc, caller, env, command, running, current_dir, os_cwd,
                   aliases, fg, history, status, obs,
                   nread, ncleanup, sweepCycle>>

\* find_command(name): the path, or the abort of the process after the
\* overrun of new_path
ApiFindCommand ==
    /\ ApiIdle
    /\ \E name \in FindNames :
          /\ lastOp' = [op |-> "find_command", name |-> name, value |-> NULL,
                        result |-> find_command(name, env, os_cwd)]
          /\ \/ pc' = pc
             \/ find_command_overruns(name, env) /\ pc' = "aborted"
    /\ ncalls' = ncalls + 1
    /\ UNCHANGED <<caller, env, command, shellState, procs, fg, history,
                   status, obs, waited, nread, nsweeps, ncleanup, sweepCycle>>

NextApi ==
    \/ ApiFindCommand
    \/ ApiAddAlias
    \/ ApiGetAlias
    \/ ApiRemoveAlias
    \/ ApiExecuteCommand
    \/ ApiAddJob
    \/ ApiUpdateJobs
    \/ ChildEvent
    \/ WaitForeground

SpecApi == InitApi /\ [][NextApi]_vars

\* ================================================================ properties
\* a step in which the harness called f
ApiCall(f) == lastOp'.op = f /\ ncalls' = ncalls + 1

\* a step of main() in which execute_command was entered
ExecStep == pc = "body" /\ pc' \in {"reap", "wait"}

\* the names of the built-ins
BuiltinNames == {"cd", "pwd", "exit", "clear", "help", "history", "alias"}
IsBuiltinWord(w) == Len(w) = 1 /\ w[1] \in BuiltinNames

\* C1: add_alias(name, v) makes a following get_alias(name) return v whenever
\* name is already in the table (also when the table holds MAX_ALIASES
\* entries) or the table is below capacity.
C1_LastWriteWins ==
    [][ ( /\ ApiCall("add_alias")
          /\ lastOp'.name # NULL /\ lastOp'.value # NULL
          /\ \/ AliasIndex(aliases, lastOp'.name) # 0
             \/ Len(aliases) < MAX_ALIASES )
        => get_alias(aliases', lastOp'.name) = lastOp'.value ]_vars

\* C2: add_alias of a name that is not in a table of MAX_ALIASES entries
\* leaves the table (count, names, values, positions) unchanged.
C2_FullTableRejectsNew ==
    [][ ( /\ ApiCall("add_alias")
          /\ lastOp'.name # NULL
          /\ Len(aliases) = MAX_ALIASES
          /\ \A i \in 1..Len(aliases) : aliases[i].name # lastOp'.name )
        => ( /\ Len(aliases') = Len(aliases)
             /\ \A i \in 1..Len(aliases) :
                   /\ aliases'[i].name = aliases[i].name
                   /\ aliases'[i].value = aliases[i].value ) ]_vars

C2_Witness ==
    /\ lastOp.op = "add_alias"
    /\ lastOp.name = <<"new">>
    /\ lastOp.value = <<"new">>
    /\ ncalls = 1
    /\ Len(aliases) = MAX_ALIASES
    /\ \A i \in 1..Len(aliases) : aliases[i].name # <<"new">>

\* C3: once alias N is defined, the line "unalias N" runs in the shell
\* process, removes N from the table, and a lookup of N then finds nothing.
C3_UnaliasRemoves ==
    [][ ( /\ ExecStep
          /\ Len(obs'.dispatched) = 2
          /\ obs'.dispatched[1] = <<"unalias">>
          /\ get_alias(aliases, obs'.dispatched[2]) # NULL )
        => ( /\ get_alias(aliases', obs'.dispatched[2]) = NULL
             /\ ~obs'.forked
             /\ obs'.resolved = <<>> ) ]_vars

\* C4: when the first word of the line is an alias, the words dispatched are
\* exactly the tokens of the alias value, in order, and no word of the line;
\* with ll = "ls -la" the lines "ll" and "ll extra" both dispatch [ls, -la].
C4_AliasReplacesLine ==
    [][ ( /\ ApiCall("execute_command")
          /\ lastOp'.name # NULL
          /\ parse_command(lastOp'.name) # <<>>
          /\ get_alias(aliases, parse_command(lastOp'.name)[1]) # NULL )
        => ( /\ obs'.dispatched =
                  strtok(get_alias(aliases, parse_command(lastOp'.name)[1]),
                         1, <<>>, ParseDelims)
             /\ ( /\ get_alias(aliases, <<"ll">>) = <<"ls", " ", "-la">>
                  /\ lastOp'.name \in {<<"ll">>, <<"ll", " ", "extra">>} )
                => obs'.dispatched = << <<"ls">>, <<"-la">> >> ) ]_vars

C4_Witness ==
    /\ lastOp.op = "execute_command"
    /\ lastOp.name = <<"ll", " ", "extra">>
    /\ obs.words = << <<"ll">>, <<"extra">> >>
    /\ get_alias(aliases, <<"ll">>) = <<"ls", " ", "-la">>
    /\ obs.dispatched = << <<"ls">>, <<"-la">> >>

\* C5: execute_command looks up one name, the first word of the original
\* line, whatever the table holds (self-referring and cyclic aliases
\* included), and then reaches dispatch.
C5_SingleLookup ==
    (obs.line # NULL /\ obs.line # <<>>) =>
        /\ Len(obs.lookups) <= 1
        /\ obs.lookups = IF parse_command(obs.line) = <<>> THEN <<>>
                         ELSE <<parse_command(obs.line)[1]>>
        /\ obs.dispatched # NULLV
        /\ obs.handler # "none"

C5_Witness ==
    /\ obs.line = <<"b">>
    /\ get_alias(aliases, <<"b">>) = <<"c">>
    /\ get_alias(aliases, <<"c">>) = <<"b", " ", "-w">>
    /\ obs.lookups = << <<"b">> >>
    /\ obs.dispatched = << <<"c">> >>

\* C6: the word sequence handed to execute_builtin / execute_external is
\* never empty.
C6_DispatchNeverEmpty == obs.dispatched # <<>>

\* C7: when the first dispatched word names a built-in, that handler runs in
\* the shell process and its status is returned; find_command is not called
\* and nothing is forked, even if the name is resolvable on the search path.
C7_BuiltinInProcess ==
    (obs.dispatched # NULLV /\ obs.dispatched # <<>>
        /\ IsBuiltinWord(obs.dispatched[1])) =>
        /\ obs.handler = obs.dispatched[1][1]
        /\ obs.resolved = <<>>
        /\ ~obs.forked
        /\ fg = 0 /\ pc # "wait"
        /\ \A p \in Pids : procs[p].st = "none"
        /\ obs.handler = "exit" => (status = 0 /\ running = 0)
        /\ obs.handler \in {"pwd", "clear", "help", "history"} => status = 0
        /\ obs.handler = "alias" =>
              status = IF Len(obs.dispatched) >= 2
                          /\ \A i \in 1..Len(obs.dispatched[2]) :
                                obs.dispatched[2][i] # "="
                       THEN 1 ELSE 0
        /\ obs.handler = "cd" =>
              /\ status \in {0, 1}
              /\ status = 0 => (current_dir = os_cwd /\ os_cwd \in env.dirs)

C7_Witness ==
    /\ obs.dispatched = << <<"pwd">> >>
    /\ obs.handler = "pwd"
    /\ find_command(<<"pwd">>, env, os_cwd) # NULL
    /\ pc = "reap"

\* C8: a line whose first word is no alias, no built-in and not resolvable
\* returns 127, forks nothing and leaves the alias table, the job table,
\* current_dir and the continue flag as they were; the loop goes on.
C8_NotFound ==
    [][ ( /\ pc = "body"
          /\ trim_whitespace(command) # <<>>
          /\ LET w == parse_command(trim_whitespace(command))[1] IN
                /\ get_alias(aliases, w) = NULL
                /\ ~IsBuiltinWord(w)
                /\ find_command(w, env, os_cwd) = NULL )
        => ( /\ status' = 127
             /\ ~obs'.forked
             /\ procs' = procs /\ fg' = fg
             /\ aliases' = aliases /\ jobs' = jobs
             /\ current_dir' = current_dir /\ os_cwd' = os_cwd
             /\ running' = running /\ running' # 0
             /\ pc' = "reap" ) ]_vars

\* how far main() is from its return once the flag is cleared
ExitRank(p) ==
    CASE p = "reap" -> 0 [] p = "read" -> 1 [] p = "cleanup" -> 2
      [] p = "done" -> 3 [] OTHER -> -1

\* C9: the exit built-in only clears the continue flag and returns success;
\* the sweep of that cycle still runs, no further line is read or executed,
\* and cleanup_shell runs exactly once, after which main returns.  (Once the
\* flag is cleared a step is always enabled until main returns, and every
\* step moves one position along reap, read, cleanup, done.)
C9_ExitThroughFlag ==
    /\ [][ (ExecStep /\ obs'.handler = "exit")
           => ( /\ running' = 0 /\ status' = 0
                /\ pc' = "reap"
                /\ ncleanup' = ncleanup
                /\ UNCHANGED <<aliases, jobs, procs, current_dir, os_cwd>> ) ]_vars
    /\ [][ (pc = "reap" /\ running = 0)
           => (nsweeps' = nsweeps + 1 /\ sweepCycle' = nread) ]_vars
    /\ [][ running = 0
           => (nread' = nread /\ history' = history /\ obs' = obs
               /\ command' = command /\ running' = 0) ]_vars
    /\ [](running = 0 /\ pc \in {"read", "cleanup", "done"} => sweepCycle = nread)
    /\ [](ncleanup = IF pc = "done" THEN 1 ELSE 0)
    /\ [](running = 0 => pc \in {"reap", "read", "cleanup", "done"})
    /\ [](running = 0 /\ pc # "done" => ENABLED <<Next>>_vars)
    /\ [][ running = 0 => ExitRank(pc') = ExitRank(pc) + 1 ]_vars

C9_Witness ==
    /\ pc = "done"
    /\ running = 0
    /\ obs.handler = "exit"
    /\ ncleanup = 1
    /\ nread = 2
    /\ sweepCycle = 2
    /\ nsweeps = 2

\* C10 as stated: the loop stops only with the continue flag false.
C10_FlagSoleExit == pc \in {"cleanup", "done"} => running = 0

\* C10 amended: the loop stops only when the continue flag is false or
\* readline has reported end of input; the flag becomes false only through
\* the exit built-in; no command, whatever its status, ends the session.
C10_FlagOrEndOfInput ==
    /\ [](pc \in {"cleanup", "done"} => (running = 0 \/ command = NULL))
    /\ [][ (pc # "cleanup" /\ pc' = "cleanup")
           => (pc = "read" /\ (running = 0 \/ command' = NULL)) ]_vars
    /\ [][ (running # 0 /\ running' = 0)
           => (ExecStep /\ obs'.handler = "exit") ]_vars
    /\ [][ (pc \in {"body", "wait", "reap"})
           => pc' \notin {"cleanup", "done"} ]_vars

C10_Witness ==
    /\ pc = "cleanup"
    /\ running = 0
    /\ command = <<"exit">>
    /\ obs.handler = "exit"
    /\ nread = 2
    /\ Len(history) = 2
    /\ history[1] = <<"nosuch", " ", "-v">>


\* a line that is empty or holds white space only
Blank(line) == \A i \in 1..Len(line) : isspace(line[i])

\* the redirection tokens and the background marker
RedirTokens == { <<"<">>, <<">">>, <<">>">>, <<"2>">>, <<"2>>">> }
BackgroundMark == <<"&">>

\* C11: a line read by main adds a history entry if and only if it is not
\* blank: a blank line dispatches nothing and leaves history alone, any other
\* line appends exactly one entry whatever the command's outcome, and nothing
\* else touches history.
C11_HistoryIffNotBlank ==
    /\ [][ pc = "body" =>
             IF Blank(command)
             THEN /\ history' = history
                  /\ obs' = obs /\ status' = status
                  /\ pc' = "read"
             ELSE /\ Len(history') = Len(history) + 1
                  /\ SubSeq(history', 1, Len(history)) = history
                  /\ ~Blank(history'[Len(history')])
                  /\ obs'.line = history'[Len(history')] ]_vars
    /\ [][ pc # "body" => history' = history ]_vars

C11_Witness ==
    /\ nread = 3
    /\ pc = "aborted"
    /\ history = << <<"ls", " ", ">">>, <<"nosuch", " ", "-v">> >>
    /\ command = <<"nosuch", " ", "-v">>

\* C12: no redirection token, and no file name that follows one, is among
\* the words that become the argument vector: "ls -la > out.txt" dispatches
\* [ls, -la].
C12_RedirectionRemoved ==
    (obs.dispatched # NULLV) =>
        /\ \A i \in 1..Len(obs.dispatched) : obs.dispatched[i] \notin RedirTokens
        /\ (obs.line = <<"ls", " ", "-la", " ", ">", " ", "out.txt">>
              /\ obs.lookups = << <<"ls">> >>
              /\ get_alias(aliases, <<"ls">>) = NULL)
           => obs.dispatched = << <<"ls">>, <<"-la">> >>

\* C13: a line whose last word is a redirection token is rejected: no
\* built-in handler runs and no child is forked for it.
C13_MalformedRejected ==
    [][ ( /\ pc = "body"
          /\ ~Blank(command)
          /\ LET w == parse_command(trim_whitespace(command)) IN
                w[Len(w)] \in RedirTokens )
        => ( /\ ~obs'.forked
             /\ obs'.handler \notin BuiltinNames
             /\ pc' # "wait" ) ]_vars

\* C14: a line ending in a standalone "&" is launched in the background: the
\* "&" is not passed to the program, the shell does not wait for the child,
\* and the job table grows by one Running entry for it.
C14_BackgroundLaunch ==
    [][ ( /\ pc = "body"
          /\ ~Blank(command)
          /\ LET w == parse_command(trim_whitespace(command)) IN
                Len(w) >= 2 /\ w[Len(w)] = BackgroundMark
          /\ obs'.forked )
        => ( /\ \A i \in 1..Len(obs'.dispatched) :
                   obs'.dispatched[i] # BackgroundMark
             /\ pc' = "reap"
             /\ Len(jobs') = Len(jobs) + 1
             /\ jobs'[Len(jobs')].running = 1
             /\ procs'[jobs'[Len(jobs')].pid].st = "running" ) ]_vars

\* C16: update_jobs has run once for every line readline has returned by the
\* time the next prompt is shown.
C16_SweepEveryCycle == (pc = "read") => (nsweeps = nread /\ sweepCycle = nread)

\* C18: current_dir equals the working directory of the process after any
\* sequence of cd invocations, whatever step of them failed.
C18_CachedDirInSync == current_dir = os_cwd

\* C15: one update_jobs sweep turns a Running job whose process has exited
\* with code c into an Exited job with status c; the sweep keeps every entry
\* at its position, and job_count never decreases, whatever is called.
C15_SweepRecordsExit ==
    /\ [][ ApiCall("update_jobs") =>
             /\ Len(jobs') = Len(jobs)
             /\ \A i \in 1..Len(jobs) :
                   /\ jobs'[i].pid = jobs[i].pid
                   /\ jobs'[i].command = jobs[i].command
                   /\ \A c \in 0..255 :
                         ( /\ jobs[i].running = 1
                           /\ procs[jobs[i].pid].st = "zombie"
                           /\ procs[jobs[i].pid].ws = StatusExited(c) )
                         => (jobs'[i].running = 0 /\ jobs'[i].status = c)
                   /\ ( jobs[i].running = 1
                        /\ procs[jobs[i].pid].st \in {"running", "stopped"} )
                      => jobs'[i] = jobs[i] ]_vars
    /\ [][ /\ Len(jobs') >= Len(jobs)
           /\ \A i \in 1..Len(jobs) : jobs'[i].pid = jobs[i].pid ]_vars

C15_Witness ==
    /\ lastOp.op = "update_jobs"
    /\ Len(jobs) = 2
    /\ jobs[1].running = 0 /\ jobs[1].status = 3
    /\ jobs[1].command = <<"sleep", " ", "5">>
    /\ jobs[2].running = 1
    /\ procs[jobs[1].pid].st = "none"

\* C17: execute_external returns only once the foreground child has exited
\* or been killed: a report that it is stopped keeps the shell waiting; the
\* status is the exit code, or 1 for a child killed by a signal; and main
\* reads the next line only after that return.
C17_ForegroundWait ==
    /\ [](pc = "wait" => (fg \in Pids /\ procs[fg].st # "none"))
    /\ [][ (pc = "wait" /\ pc' # "wait") =>
             /\ procs[fg].st = "zombie"
             /\ procs'[fg].st = "none"
             /\ pc' = "reap"
             /\ \/ \E c \in 0..255 :
                      procs[fg].ws = StatusExited(c) /\ status' = c
                \/ \E sig \in 1..126 :
                      procs[fg].ws = StatusSignaled(sig) /\ status' = EXIT_FAILURE ]_vars
    /\ [][ (pc = "wait" /\ procs[fg].st \in {"running", "stopped"})
             => (pc' = "wait" /\ fg' = fg /\ status' = status) ]_vars
    /\ [][ nread' # nread => (fg = 0 /\ \A p \in Pids : procs[p].st = "none") ]_vars

C17_Witness ==
    /\ pc = "reap"
    /\ obs.forked
    /\ obs.resolved = << <<"ls">> >>
    /\ status = EXIT_FAILURE
    /\ fg = 0

\* the directories of C19 in their order: the entries of PATH, then the
\* fallback list with ~ expanded
C19_Order(e) ==
    (IF e.PATH = NULL THEN <<>> ELSE strtok(e.PATH, 1, <<>>, {":"}))
    \o [i \in 1..Len(standard_paths) |-> ExpandStandard(standard_paths[i], e.HOME)]

C19_Expected(name, e, cwd) ==
    LET order == C19_Order(e)
        hits  == { i \in 1..Len(order) :
                     AbsPath(order[i] \o <<"/">> \o name, cwd) \in e.files }
    IN IF hits = {} THEN NULL
       ELSE LET first == CHOOSE i \in hits : \A j \in hits : i <= j
            IN order[first] \o <<"/">> \o name

\* C19: for a bare name find_command returns directory/name for the first
\* directory, PATH entries before the fallback list, in which the file is
\* executable, and not found only when no directory has it.
C19_SearchOrder ==
    [][ ( /\ ApiCall("find_command")
          /\ lastOp'.name # NULL
          /\ strchr(lastOp'.name, "/") = 0 )
        => ( /\ pc' # "aborted"
             /\ lastOp'.result = C19_Expected(lastOp'.name, env, os_cwd) ) ]_vars

\* C20: no two entries of the alias table have the same name.
C20_AliasNamesUnique ==
    Cardinality({ aliases[i].name : i \in 1..Len(aliases) }) = Len(aliases)

C20_Witness ==
    /\ lastOp.op = "add_alias"
    /\ lastOp.name = <<"ll">>
    /\ lastOp.value = <<"new">>
    /\ Len(aliases) = Len(QuirkTable)
    /\ get_alias(aliases, <<"ll">>) = <<"new">>

\* the pids of the Running entries, in table order
RECURSIVE RunningPids(_)
RunningPids(js) ==
    IF js = <<>> THEN <<>>
    ELSE (IF js[1].running = 1 THEN <<js[1].pid>> ELSE <<>>) \o RunningPids(Tail(js))

\* C21: Exited is absorbing and a sweep changes only the jobs it saw
\* terminate: a sweep waits on the pids of the Running entries and no others,
\* an Exited entry is never changed again, and a Running entry changes (to
\* Exited) only when waitpid returned its pid; a job whose process is alive,
\* or whose wait fails, stays as it is.
C21_ExitedAbsorbing ==
    /\ [][ ApiCall("update_jobs") =>
             /\ waited' = RunningPids(jobs)
             /\ Len(jobs') = Len(jobs)
             /\ \A i \in 1..Len(jobs) :
                   IF jobs[i].running = 1 /\ procs[jobs[i].pid].st = "zombie"
                      /\ \A j \in 1..(i - 1) :
                            ~(jobs[j].running = 1 /\ jobs[j].pid = jobs[i].pid)
                   THEN jobs'[i].running = 0 /\ jobs'[i].pid = jobs[i].pid
                   ELSE jobs'[i] = jobs[i] ]_vars
    /\ [][ \A i \in 1..Len(jobs) :
              jobs[i].running = 0 => jobs'[i] = jobs[i] ]_vars

C21_Witness ==
    /\ lastOp.op = "update_jobs"
    /\ nsweeps = 2
    /\ waited = <<>>
    /\ Len(jobs) = 1
    /\ jobs[1].running = 0 /\ jobs[1].status = 3

\* C22: a definition given to the alias built-in that is rejected, for want
\* of "=" or because the table is full, makes execute_command return a
\* non-zero status.
C22_RejectedAliasFails ==
    [][ ( /\ ApiCall("execute_command")
          /\ obs'.handler = "alias"
          /\ Len(obs'.dispatched) >= 2
          /\ \/ strchr(obs'.dispatched[2], "=") = 0
             \/ (Len(aliases) >= MAX_ALIASES /\ aliases' = aliases) )
        => status' # EXIT_SUCCESS ]_vars

\* the first word of the line main is about to execute names a built-in that
\* is shadowed by an alias whose value does not start with that name
ShadowedBuiltinLine ==
    /\ pc = "body"
    /\ ~Blank(command)
    /\ LET w == parse_command(trim_whitespace(command))
           v == get_alias(aliases, w[1])
       IN /\ IsBuiltinWord(w[1])
          /\ v # NULL
          /\ (parse_command(v) = <<>> \/ parse_command(v)[1] # w[1])

\* no step removes a name from the alias table
AliasNamesKept ==
    \A i \in 1..Len(aliases) : get_alias(aliases', aliases[i].name) # NULL

\* C23: an alias named like a built-in B shadows B: a line whose first word
\* is B does not run built-in B unless the alias value starts with B; no
\* command removes an alias; and once "alias exit=pwd" is in the table no
\* input line clears the continue flag.
C23_AliasShadowsBuiltin ==
    /\ [][ ShadowedBuiltinLine
           => obs'.handler # parse_command(trim_whitespace(command))[1][1] ]_vars
    /\ [][ AliasNamesKept ]_vars
    /\ [][ get_alias(aliases, <<"exit">>) = <<"pwd">> => running' = running ]_vars

\* C23 amended: as C23, but with "alias exit=pwd" in the table it is the
\* lines whose first word is exit that cannot clear the continue flag.
C23_AliasShadowsBuiltinWord ==
    /\ [][ ShadowedBuiltinLine
           => obs'.handler # parse_command(trim_whitespace(command))[1][1] ]_vars
    /\ [][ AliasNamesKept ]_vars
    /\ [][ ( /\ pc = "body"
             /\ ~Blank(command)
             /\ parse_command(trim_whitespace(command))[1] = <<"exit">>
             /\ get_alias(aliases, <<"exit">>) = <<"pwd">> )
           => running' = running ]_vars

C23_Witness ==
    /\ pc = "reap"
    /\ obs.line = <<"exit">>
    /\ obs.handler = "pwd"
    /\ get_alias(aliases, <<"exit">>) = <<"pwd">>
    /\ running = 1
    /\ nread = 3

\* C24: a job whose process was killed by a signal is recorded by a sweep
\* with a non-zero status, as execute_external returns the non-zero
\* EXIT_FAILURE for a foreground child killed by a signal.
C24_SignalledJobFails ==
    [][ ApiCall("update_jobs") =>
          \A i \in 1..Len(jobs) :
             ( /\ jobs[i].running = 1
               /\ procs[jobs[i].pid].st = "zombie"
               /\ WIFSIGNALED(procs[jobs[i].pid].ws) )
             => ( /\ external_status(procs[jobs[i].pid].ws) # EXIT_SUCCESS
                  /\ jobs'[i].running = 0
                  /\ jobs'[i].status # EXIT_SUCCESS ) ]_vars
====
